---------------------------- MODULE Spec2Model ----------------------------
(***************************************************************************)
(* Model of go-json-schema-generate: the type resolution engine            *)
(* (generator.go: CreateTypes, processSchema, processDefinitions,          *)
(* processReference, processArray, processObject, the naming engine) and   *)
(* the Elasticsearch mapping renderer (esoutput.go: renderStructMapping).  *)
(*                                                                         *)
(* Go strings are TLA+ strings; Len, SubSeq and \o act on them character   *)
(* by character.  The recursive Go functions are run on an explicit call   *)
(* stack, one frame per activation, one action per stretch of code between *)
(* two calls.  Go's randomised map iteration is a nondeterministic choice  *)
(* of the next key.                                                        *)
(***************************************************************************)
EXTENDS Integers, Sequences, FiniteSets, TLC

(***************************************************************************)
(* Bounds                                                                  *)
(***************************************************************************)
\* longest raw key handed to getGolangName in the naming specification
MaxLen == 4
\* goroutine stack limit, in frames, of the resolution pass
MaxStack == 16
\* goroutine stack limit, in frames, of renderStructMapping
MaxRenderDepth == 6

(***************************************************************************)
(* Strings                                                                 *)
(***************************************************************************)
Char(s, i) == SubSeq(s, i, i)

LowerLetters == "abcdefghijklmnopqrstuvwxyz"
UpperLetters == "ABCDEFGHIJKLMNOPQRSTUVWXYZ"
DigitChars == "0123456789"

CharsOf(s) == {Char(s, i) : i \in 1..Len(s)}

IndexIn(s, c) == CHOOSE i \in 1..Len(s) : Char(s, i) = c

IsLetter(c) == c \in CharsOf(LowerLetters) \cup CharsOf(UpperLetters)

IsDigit(c) == c \in CharsOf(DigitChars)

ToUpper(c) ==
    IF c \in CharsOf(LowerLetters) THEN Char(UpperLetters, IndexIn(LowerLetters, c)) ELSE c

HasPrefix(s, p) == Len(s) >= Len(p) /\ SubSeq(s, 1, Len(p)) = p

RECURSIVE TrimLeft(_, _)
TrimLeft(s, cutset) ==
    IF s # "" /\ Char(s, 1) \in CharsOf(cutset)
    THEN TrimLeft(SubSeq(s, 2, Len(s)), cutset)
    ELSE s

RECURSIVE TrimRight(_, _)
TrimRight(s, cutset) ==
    IF s # "" /\ Char(s, Len(s)) \in CharsOf(cutset)
    THEN TrimRight(SubSeq(s, 1, Len(s) - 1), cutset)
    ELSE s

Trim(s, cutset) == TrimRight(TrimLeft(s, cutset), cutset)

RECURSIVE Itoa(_)
Itoa(n) ==
    IF n < 10 THEN Char(DigitChars, n + 1)
    ELSE Itoa(n \div 10) \o Char(DigitChars, (n % 10) + 1)

(***************************************************************************)
(* Naming engine                                                           *)
(***************************************************************************)
isNotAGoNameCharacter(r) == ~(IsLetter(r) \/ IsDigit(r))

\* the loop of splitOnAll: rv is the list built so far, buf the buffer
RECURSIVE splitLoop(_, _, _, _)
splitLoop(s, i, rv, buf) ==
    IF i > Len(s)
    THEN IF Len(buf) > 0 THEN Append(rv, buf) ELSE rv
    ELSE IF isNotAGoNameCharacter(Char(s, i))
         THEN splitLoop(s, i + 1, Append(rv, buf), "")
         ELSE splitLoop(s, i + 1, rv, buf \o Char(s, i))

splitOnAll(s) == splitLoop(s, 1, <<>>, "")

capitaliseFirstLetter(s) ==
    IF s = "" THEN s ELSE ToUpper(Char(s, 1)) \o SubSeq(s, 2, Len(s))

\* the convention table handed to CreateTypes: fragment -> override
Conventions == [f \in {"Id"} |-> "ID"]

applyConventions(fragment) ==
    IF fragment \in DOMAIN Conventions THEN Conventions[fragment] ELSE fragment

StartsWithDigit(v) == v # "" /\ IsDigit(Char(v, 1))

RECURSIVE golangNameLoop(_, _, _)
golangNameLoop(frags, i, buf) ==
    IF i > Len(frags) THEN buf
    ELSE golangNameLoop(frags, i + 1,
            buf \o (IF i = 1 /\ StartsWithDigit(frags[i]) THEN "_" ELSE "")
                \o applyConventions(capitaliseFirstLetter(frags[i])))

getGolangName(s) == golangNameLoop(splitOnAll(s), 1, "")


(***************************************************************************)
(* Schema documents                                                        *)
(*                                                                         *)
(* A document is a root object with properties "a" and "b" and one         *)
(* definitions entry, or a root map / root array over the schema "a".      *)
(* Each slot takes a shape; shapes with a sub-schema take a child shape.   *)
(***************************************************************************)
NoNode == 0
Root == 1
NodeA == 2
NodeB == 3
NodeX == 4
NodeAC == 5
NodeXC == 6
Nodes == Root..NodeXC

RootKinds == {"object", "map", "array"}
ParentShapes == {"object", "array", "map", "unionobj", "dashobj", "dashmap"}
AShapes == {"union", "refx", "object", "array", "map", "unionobj", "dashobj"}
BShapes == {"date", "refroot", "refa", "refac", "refx"}
XShapes == {"bogus", "object", "array", "map", "dashmap"}
AChildShapes == {"integer", "open", "refroot", "refparent"}
XChildShapes == {"integer", "refroot", "refparent"}

Docs ==
    {d \in [root : RootKinds, a : AShapes, ac : AChildShapes, b : BShapes,
            x : XShapes, xc : XChildShapes] :
        /\ d.a \notin ParentShapes => d.ac = "integer"
        /\ d.x \notin ParentShapes => d.xc = "integer"
        /\ d.root # "object" => d.b = "date" /\ d.x = "map" /\ d.xc = "integer"}

VARIABLES
    doc,            \* the schema document handed to New
    TypeValue,      \* Schema.TypeValue of every node (FixMissingTypeValue writes it)
    GeneratedType,  \* Schema.GeneratedType of every node
    Structs,        \* Generator.Structs
    Aliases,        \* Generator.Aliases
    anonCount,      \* Generator.anonCount
    stack,          \* the goroutine's call stack, innermost frame last
    ret,            \* the values returned by the call that returned last
    status,         \* "new", "running", "done", "overflow"
    err,            \* the error CreateTypes returned ("" is nil)
    bodyRuns,       \* history: how often processObject and processArray ran on a node
    refTypes,       \* history: the types processReference returned per target
    failed,         \* history: some call of the pass returned an error
    first,          \* the registries of the first pass, once a second one started
    rstack,         \* call stack of renderStructMapping
    rstatus,        \* "idle", "running", "finished", "overflow"
    out,            \* what ESOutput wrote: its lines, without quotes and indentation
    raw,            \* naming specification: the raw key
    frags,          \* naming specification: what splitOnAll returned
    goName          \* naming specification: what getGolangName returned

vars == <<doc, TypeValue, GeneratedType, Structs, Aliases, anonCount, stack, ret,
          status, err, bodyRuns, refTypes, failed, first, rstack, rstatus, out,
          raw, frags, goName>>

genVars == <<TypeValue, GeneratedType, Structs, Aliases, anonCount, stack, ret,
             status, err, bodyRuns, refTypes, failed>>
renderVars == <<rstack, rstatus, out>>
nameVars == <<raw, frags, goName>>

Exists(n) ==
    CASE n = Root -> TRUE
      [] n = NodeA -> TRUE
      [] n = NodeB -> doc.root = "object"
      [] n = NodeX -> TRUE
      [] n = NodeAC -> doc.a \in ParentShapes
      [] n = NodeXC -> doc.x \in ParentShapes
      [] OTHER -> FALSE

Shape(n) ==
    CASE n = Root -> doc.root
      [] n = NodeA -> doc.a
      [] n = NodeB -> doc.b
      [] n = NodeX -> doc.x
      [] n = NodeAC -> doc.ac
      [] n = NodeXC -> doc.xc

Child(n) == CASE n = NodeA -> NodeAC [] n = NodeX -> NodeXC [] OTHER -> NoNode

Parent(n) ==
    CASE n = Root -> NoNode
      [] n \in {NodeA, NodeB, NodeX} -> Root
      [] n = NodeAC -> NodeA
      [] n = NodeXC -> NodeX

\* the key of the definitions entry
DefKey == IF doc.x = "dashmap" THEN "-" ELSE "x"

\* where the sub-schema of a shape hangs
ChildRole(shape) ==
    CASE shape = "array" -> "items"
      [] shape \in {"map", "dashmap"} -> "additionalProperties"
      [] OTHER -> "properties/c"

PathElement(n) ==
    CASE n = Root -> "#"
      [] n = NodeA -> (CASE doc.root = "object" -> "properties/a"
                         [] doc.root = "map" -> "additionalProperties"
                         [] doc.root = "array" -> "items")
      [] n = NodeB -> "properties/b"
      [] n = NodeX -> "definitions/" \o DefKey
      [] n = NodeAC -> ChildRole(doc.a)
      [] n = NodeXC -> ChildRole(doc.x)

JSONKey(n) ==
    CASE n = Root -> ""
      [] n = NodeA -> IF doc.root = "object" THEN "a" ELSE ""
      [] n = NodeB -> "b"
      [] n = NodeX -> DefKey
      [] n \in {NodeAC, NodeXC} ->
            IF ChildRole(Shape(Parent(n))) = "properties/c" THEN "c" ELSE ""

RECURSIVE Path(_)
Path(n) == IF n = Root THEN "#" ELSE Path(Parent(n)) \o "/" \o PathElement(n)

Reference(n) ==
    CASE n = Root -> ""
      [] Shape(n) = "refroot" -> "#"
      [] Shape(n) = "refa" -> Path(NodeA)
      [] Shape(n) = "refac" -> Path(NodeA) \o "/" \o ChildRole(doc.a)
      [] Shape(n) = "refx" -> Path(NodeX)
      [] Shape(n) = "refparent" -> Path(Parent(n))
      [] OTHER -> ""

Title(n) == IF n # Root /\ Shape(n) = "dashobj" THEN "-" ELSE ""

Format(n) == IF n # Root /\ Shape(n) = "date" THEN "date-time" ELSE ""

\* Schema.Properties: key -> node
Properties(n) ==
    CASE n = Root /\ doc.root = "object" -> ("a" :> NodeA) @@ ("b" :> NodeB)
      [] n \in {NodeA, NodeX} /\ Shape(n) \in ParentShapes
            /\ ChildRole(Shape(n)) = "properties/c" -> ("c" :> Child(n))
      [] OTHER -> <<>>

Required(n) == IF n # Root /\ Shape(n) = "object" THEN {"c"} ELSE {}

Items(n) ==
    CASE n = Root /\ doc.root = "array" -> NodeA
      [] n \in {NodeA, NodeX} /\ Shape(n) = "array" -> Child(n)
      [] OTHER -> NoNode

\* Schema.AdditionalProperties: absent, a boolean, or a schema
AdditionalProperties(n) ==
    CASE n = Root /\ doc.root = "map" -> [kind |-> "schema", b |-> FALSE, node |-> NodeA]
      [] n \in {NodeA, NodeX} /\ Shape(n) \in {"map", "dashmap"} ->
            [kind |-> "schema", b |-> FALSE, node |-> Child(n)]
      [] n # Root /\ Shape(n) = "open" -> [kind |-> "bool", b |-> TRUE, node |-> NoNode]
      [] n # Root /\ Shape(n) = "unionobj" -> [kind |-> "bool", b |-> FALSE, node |-> NoNode]
      [] OTHER -> [kind |-> "absent", b |-> FALSE, node |-> NoNode]

Definitions(n) == IF n = Root THEN (DefKey :> NodeX) ELSE <<>>

\* Schema.TypeValue as parsed: the list of declared tags, <<>> when absent
DeclaredType(d, n) ==
    LET shape == CASE n = Root -> d.root [] n = NodeA -> d.a [] n = NodeB -> d.b
                   [] n = NodeX -> d.x [] n = NodeAC -> d.ac [] n = NodeXC -> d.xc
    IN  CASE n = Root -> IF shape = "array" THEN <<"array">> ELSE <<"object">>
          [] shape \in {"object", "map", "dashmap", "open"} -> <<"object">>
          [] shape = "array" -> <<"array">>
          [] shape = "unionobj" -> <<"array", "object">>
          [] shape = "union" -> <<"string", "integer">>
          [] shape = "integer" -> <<"integer">>
          [] shape = "date" -> <<"string">>
          [] shape = "bogus" -> <<"bogus">>
          [] OTHER -> <<>>

\* RefResolver.GetSchemaByReference: the node at the referenced path, if any
GetSchemaByReference(n) ==
    LET hits == {m \in Nodes : Exists(m) /\ Path(m) = Reference(n)}
    IN  IF hits = {} THEN NoNode ELSE CHOOSE m \in hits : TRUE

(***************************************************************************)
(* Type model and helpers of the resolution engine                         *)
(***************************************************************************)
Struct(name) ==
    [Name |-> name, Fields |-> <<>>, GenerateCode |-> FALSE,
     AdditionalType |-> "", importTypes |-> <<>>]

Field(name, jsonName, type, required, format) ==
    [Name |-> name, JSONName |-> jsonName, Type |-> type,
     Required |-> required, Format |-> format]

\* the map assignment m[k] = v
Put(m, k, v) == (k :> v) @@ m

formatCustomTypes ==
    ("date-time" :> [PackageName |-> "time", TypeName |-> "time.Time"])
    @@ ("uuid" :> [PackageName |-> "github.com/google/uuid", TypeName |-> "uuid.UUID"])

contains(s, e) == e \in s

getPrimitiveTypeName(schemaType, subType, pointer) ==
    CASE schemaType = "array" ->
            IF subType = ""
            THEN [name |-> "error_creating_array",
                  err |-> "can't create an array of an empty subtype"]
            ELSE [name |-> "[]" \o Trim(IF subType = "int" THEN "int64" ELSE subType, "*"),
                  err |-> ""]
      [] schemaType = "boolean" -> [name |-> "bool", err |-> ""]
      [] schemaType = "integer" -> [name |-> "int", err |-> ""]
      [] schemaType = "number" -> [name |-> "float64", err |-> ""]
      [] schemaType = "null" -> [name |-> "nil", err |-> ""]
      [] schemaType = "object" ->
            IF subType = ""
            THEN [name |-> "error_creating_object",
                  err |-> "can't create an object of an empty subtype"]
            ELSE [name |-> (IF pointer THEN "*" ELSE "") \o subType, err |-> ""]
      [] schemaType = "string" -> [name |-> "string", err |-> ""]
      [] OTHER -> [name |-> "undefined", err |-> "failed to get a primitive type"]

\* the name and the value anonCount has afterwards
getSchemaName(keyName, n, cnt) ==
    IF Len(Title(n)) > 0 THEN [name |-> getGolangName(Title(n)), anon |-> cnt]
    ELSE IF keyName # "" THEN [name |-> getGolangName(keyName), anon |-> cnt]
    ELSE IF Parent(n) = NoNode THEN [name |-> "Root", anon |-> cnt]
    ELSE IF JSONKey(n) # "" THEN [name |-> getGolangName(JSONKey(n)), anon |-> cnt]
    ELSE IF Parent(n) # NoNode /\ JSONKey(Parent(n)) # ""
         THEN [name |-> getGolangName(JSONKey(Parent(n)) \o "Item"), anon |-> cnt]
    ELSE [name |-> "Anonymous" \o Itoa(cnt + 1), anon |-> cnt + 1]

\* Schema.FixMissingTypeValue: a schema with properties and no type is an object
FixMissingTypeValue(tv, n) ==
    IF tv = <<>> /\ DOMAIN Properties(n) # {} THEN <<"object">> ELSE tv

\* Schema.MultiType: the declared tags, and whether there are several
MultiType(tv) == [types |-> tv, isMultiType |-> Len(tv) > 1]

(***************************************************************************)
(* Call stack                                                              *)
(***************************************************************************)
\* visited is history: the tags whose branch processSchema has entered
NewFrame(fn, name, node) ==
    [fn |-> fn, pc |-> "start", name |-> name, node |-> node,
     keys |-> {}, key |-> "", idx |-> 1, strct |-> Struct(name), visited |-> {}]

Top == stack[Len(stack)]

At(fn, pc) ==
    /\ status = "running"
    /\ Len(stack) > 0
    /\ Len(stack) <= MaxStack
    /\ Top.fn = fn
    /\ Top.pc = pc

Goto(frame) ==
    /\ stack' = [stack EXCEPT ![Len(stack)] = frame]
    /\ ret' = ret
    /\ failed' = failed

Call(caller, callee) ==
    /\ stack' = Append([stack EXCEPT ![Len(stack)] = caller], callee)
    /\ ret' = ret
    /\ failed' = failed

Return(typ, e) ==
    /\ stack' = SubSeq(stack, 1, Len(stack) - 1)
    /\ ret' = [typ |-> typ, err |-> e]
    /\ failed' = (failed \/ e # "")

NoRet == [typ |-> "", err |-> ""]

(***************************************************************************)
(* New and CreateTypes                                                     *)
(***************************************************************************)
Fresh(d) ==
    /\ TypeValue = [n \in Nodes |-> DeclaredType(d, n)]
    /\ GeneratedType = [n \in Nodes |-> ""]
    /\ Structs = <<>>
    /\ Aliases = <<>>
    /\ anonCount = 0
    /\ stack = <<>>
    /\ ret = NoRet
    /\ status = "new"
    /\ err = ""
    /\ bodyRuns = [n \in Nodes |-> [processObject |-> 0, processArray |-> 0]]
    /\ refTypes = [n \in Nodes |-> {}]
    /\ failed = FALSE

Init ==
    /\ doc \in Docs
    /\ Fresh(doc)
    /\ first = <<>>
    /\ rstack = <<>>
    /\ rstatus = "idle"
    /\ out = <<>>
    /\ raw = ""
    /\ frags = <<>>
    /\ goName = ""

\* CreateTypes up to the call of processSchema on the (one) schema
CreateTypes ==
    /\ status = "new"
    /\ LET sn == getSchemaName("", Root, anonCount)
       IN  /\ anonCount' = sn.anon
           /\ stack' = << [NewFrame("CreateTypes", sn.name, Root) EXCEPT !.pc = "wait"],
                          NewFrame("processSchema", sn.name, Root) >>
    /\ status' = "running"
    /\ UNCHANGED <<doc, TypeValue, GeneratedType, Structs, Aliases, ret, err,
                   bodyRuns, refTypes, failed, first, renderVars, nameVars>>

\* CreateTypes from the return of processSchema to its own return
CreateTypesReturn ==
    /\ At("CreateTypes", "wait")
    /\ stack' = <<>>
    /\ status' = "done"
    /\ err' = ret.err
    /\ Aliases' = IF ret.err = "" /\ ret.typ # "*" \o Top.name
                  THEN Put(Aliases, Top.name,
                           Field(Top.name, "", ret.typ, FALSE, Format(Top.node)))
                  ELSE Aliases
    /\ UNCHANGED <<doc, TypeValue, GeneratedType, Structs, anonCount, ret,
                   bodyRuns, refTypes, failed, first, renderVars, nameVars>>

(***************************************************************************)
(* processSchema                                                           *)
(***************************************************************************)
\* entry: a non-empty definitions block is processed first, its error dropped
processSchema ==
    /\ At("processSchema", "start")
    /\ IF DOMAIN Definitions(Top.node) # {}
       THEN Call([Top EXCEPT !.pc = "types"],
                 [NewFrame("processDefinitions", "", Top.node)
                    EXCEPT !.keys = DOMAIN Definitions(Top.node)])
       ELSE Goto([Top EXCEPT !.pc = "types"])
    /\ UNCHANGED <<doc, TypeValue, GeneratedType, Structs, Aliases, anonCount,
                   status, err, bodyRuns, refTypes, first, renderVars, nameVars>>

\* FixMissingTypeValue, MultiType and one iteration of the loop over the tags
processSchemaType ==
    /\ At("processSchema", "types")
    /\ LET n == Top.node
           tv == IF Top.idx = 1 THEN FixMissingTypeValue(TypeValue[n], n) ELSE TypeValue[n]
           mt == MultiType(tv)
           tag == mt.types[Top.idx]
           name == IF mt.isMultiType THEN Top.name \o "_" \o tag ELSE Top.name
           prim == getPrimitiveTypeName(tag, "", FALSE)
       IN  /\ TypeValue' = [TypeValue EXCEPT ![n] = tv]
           /\ IF Len(mt.types) > 0
              THEN IF Top.idx > Len(mt.types)
                   THEN Return("interface{}", "")
                   ELSE IF tag = "object"
                   THEN Call([Top EXCEPT !.pc = "branch", !.visited = @ \cup {tag}],
                             NewFrame("processObject", name, n))
                   ELSE IF tag = "array"
                   THEN Call([Top EXCEPT !.pc = "branch", !.visited = @ \cup {tag}],
                             NewFrame("processArray", name, n))
                   ELSE IF prim.err # "" THEN Return("", prim.err)
                   ELSE IF ~mt.isMultiType THEN Return(prim.name, "")
                   ELSE Goto([Top EXCEPT !.idx = Top.idx + 1, !.visited = @ \cup {tag}])
              ELSE IF Reference(n) # ""
                   THEN Call([Top EXCEPT !.pc = "ref"], NewFrame("processReference", "", n))
                   ELSE Return("interface{}", "")
    /\ UNCHANGED <<doc, GeneratedType, Structs, Aliases, anonCount,
                   status, err, bodyRuns, refTypes, first, renderVars, nameVars>>

\* as processSchemaBranchReturn, but the first tag's result is returned for a
\* union as well
processSchemaBranchReturn_FirstWins ==
    /\ At("processSchema", "branch")
    /\ IF ret.err # "" THEN Return("", ret.err) ELSE Return(ret.typ, "")
    /\ UNCHANGED <<doc, TypeValue, GeneratedType, Structs, Aliases, anonCount,
                   status, err, bodyRuns, refTypes, first, renderVars, nameVars>>

\* after processObject or processArray returned into the loop over the tags
processSchemaBranchReturn ==
    /\ At("processSchema", "branch")
    /\ IF ret.err # "" THEN Return("", ret.err)
       ELSE IF ~MultiType(TypeValue[Top.node]).isMultiType THEN Return(ret.typ, "")
       ELSE Goto([Top EXCEPT !.pc = "types", !.idx = Top.idx + 1])
    /\ UNCHANGED <<doc, TypeValue, GeneratedType, Structs, Aliases, anonCount,
                   status, err, bodyRuns, refTypes, first, renderVars, nameVars>>

\* return g.processReference(schema, conventions)
processSchemaReferenceReturn ==
    /\ At("processSchema", "ref")
    /\ Return(ret.typ, ret.err)
    /\ UNCHANGED <<doc, TypeValue, GeneratedType, Structs, Aliases, anonCount,
                   status, err, bodyRuns, refTypes, first, renderVars, nameVars>>

(***************************************************************************)
(* processDefinitions                                                      *)
(***************************************************************************)
\* one iteration of the range over schema.Definitions, or the end of the loop
processDefinitions ==
    /\ At("processDefinitions", "start")
    /\ IF Top.keys = {}
       THEN Return("", "")
       ELSE \E key \in Top.keys :
                Call([Top EXCEPT !.keys = Top.keys \ {key}, !.pc = "wait"],
                     NewFrame("processSchema", getGolangName(key),
                              Definitions(Top.node)[key]))
    /\ UNCHANGED <<doc, TypeValue, GeneratedType, Structs, Aliases, anonCount,
                   status, err, bodyRuns, refTypes, first, renderVars, nameVars>>

processDefinitionsReturn ==
    /\ At("processDefinitions", "wait")
    /\ IF ret.err # "" THEN Return("", ret.err) ELSE Goto([Top EXCEPT !.pc = "start"])
    /\ UNCHANGED <<doc, TypeValue, GeneratedType, Structs, Aliases, anonCount,
                   status, err, bodyRuns, refTypes, first, renderVars, nameVars>>

(***************************************************************************)
(* processReference                                                        *)
(***************************************************************************)
processReference ==
    /\ At("processReference", "start")
    /\ LET refSchema == GetSchemaByReference(Top.node)
           sn == getSchemaName("", refSchema, anonCount)
       IN  IF Reference(Top.node) = ""
           THEN /\ Return("", "processReference empty reference")
                /\ UNCHANGED <<anonCount, refTypes>>
           ELSE IF refSchema = NoNode
           THEN /\ Return("", "processReference: reference not found")
                /\ UNCHANGED <<anonCount, refTypes>>
           ELSE IF GeneratedType[refSchema] = ""
           THEN /\ anonCount' = sn.anon
                /\ Call([Top EXCEPT !.pc = "wait"], NewFrame("processSchema", sn.name, refSchema))
                /\ UNCHANGED refTypes
           ELSE /\ Return(GeneratedType[refSchema], "")
                /\ refTypes' = [refTypes EXCEPT ![refSchema] = @ \cup {GeneratedType[refSchema]}]
                /\ UNCHANGED anonCount
    /\ UNCHANGED <<doc, TypeValue, GeneratedType, Structs, Aliases,
                   status, err, bodyRuns, first, renderVars, nameVars>>

processReferenceReturn ==
    /\ At("processReference", "wait")
    /\ IF ret.err # ""
       THEN /\ Return("", ret.err)
            /\ UNCHANGED refTypes
       ELSE /\ Return(ret.typ, "")
            /\ refTypes' = [refTypes EXCEPT ![GetSchemaByReference(Top.node)] = @ \cup {ret.typ}]
    /\ UNCHANGED <<doc, TypeValue, GeneratedType, Structs, Aliases, anonCount,
                   status, err, bodyRuns, first, renderVars, nameVars>>

(***************************************************************************)
(* processArray                                                            *)
(***************************************************************************)
processArray ==
    /\ At("processArray", "start")
    /\ bodyRuns' = [bodyRuns EXCEPT ![Top.node].processArray = @ + 1]
    /\ LET items == Items(Top.node)
           sn == getSchemaName(Top.name \o "Items", items, anonCount)
       IN  IF items # NoNode
           THEN /\ anonCount' = sn.anon
                /\ Call([Top EXCEPT !.pc = "wait"], NewFrame("processSchema", sn.name, items))
           ELSE /\ Return("[]interface{}", "")
                /\ UNCHANGED anonCount
    /\ UNCHANGED <<doc, TypeValue, GeneratedType, Structs, Aliases,
                   status, err, refTypes, first, renderVars, nameVars>>

processArrayReturn ==
    /\ At("processArray", "wait")
    /\ LET finalType == getPrimitiveTypeName("array", ret.typ, TRUE)
       IN  IF ret.err # ""
           THEN /\ Return("", ret.err)
                /\ UNCHANGED Aliases
           ELSE IF finalType.err # ""
           THEN /\ Return("", finalType.err)
                /\ UNCHANGED Aliases
           ELSE /\ Aliases' = IF Parent(Top.node) = NoNode
                              THEN Put(Aliases, Top.name,
                                       Field(Top.name, "", finalType.name,
                                             contains(Required(Top.node), Top.name),
                                             Format(Top.node)))
                              ELSE Aliases
                /\ Return(finalType.name, "")
    /\ UNCHANGED <<doc, TypeValue, GeneratedType, Structs, anonCount,
                   status, err, bodyRuns, refTypes, first, renderVars, nameVars>>

(***************************************************************************)
(* processObject                                                           *)
(***************************************************************************)
\* the record literal and the caching of the object name
processObject ==
    /\ At("processObject", "start")
    /\ bodyRuns' = [bodyRuns EXCEPT ![Top.node].processObject = @ + 1]
    /\ GeneratedType' = [GeneratedType EXCEPT ![Top.node] = "*" \o Top.name]
    /\ Goto([Top EXCEPT !.pc = "props", !.strct = Struct(Top.name),
                        !.keys = DOMAIN Properties(Top.node)])
    /\ UNCHANGED <<doc, TypeValue, Structs, Aliases, anonCount,
                   status, err, refTypes, first, renderVars, nameVars>>

\* one iteration of the range over schema.Properties, up to processSchema
processObjectProperty ==
    /\ At("processObject", "props")
    /\ Top.keys # {}
    /\ \E propKey \in Top.keys :
        LET prop == Properties(Top.node)[propKey]
            fieldName == getGolangName(propKey)
            sn == getSchemaName(fieldName, prop, anonCount)
        IN  /\ anonCount' = sn.anon
            /\ Call([Top EXCEPT !.pc = "propwait", !.key = propKey,
                                !.keys = Top.keys \ {propKey}],
                    NewFrame("processSchema", sn.name, prop))
    /\ UNCHANGED <<doc, TypeValue, GeneratedType, Structs, Aliases,
                   status, err, bodyRuns, refTypes, first, renderVars, nameVars>>

\* the rest of the iteration: the field is added to the record
processObjectPropertyReturn ==
    /\ At("processObject", "propwait")
    /\ LET propKey == Top.key
           prop == Properties(Top.node)[propKey]
           f == Field(getGolangName(propKey), propKey, ret.typ,
                      contains(Required(Top.node), propKey), Format(prop))
           imports == IF f.Type = "string" /\ f.Format # ""
                         /\ f.Format \in DOMAIN formatCustomTypes
                      THEN Append(Top.strct.importTypes,
                                  formatCustomTypes[f.Format].PackageName)
                      ELSE Top.strct.importTypes
           strct == [Top.strct EXCEPT
                        !.importTypes = imports,
                        !.GenerateCode = @ \/ f.Required,
                        !.Fields = Put(@, f.Name, f)]
       IN  IF ret.err # "" THEN Return("", ret.err)
           ELSE Goto([Top EXCEPT !.pc = "props", !.strct = strct])
    /\ UNCHANGED <<doc, TypeValue, GeneratedType, Structs, Aliases, anonCount,
                   status, err, bodyRuns, refTypes, first, renderVars, nameVars>>

isDefinitionObject_Never(n) == FALSE

isDefinitionObject(n) == HasPrefix(PathElement(n), "definitions")

\* boolean additionalProperties, registration of the record, the pointer type
FinishObject(strct0) ==
    LET ap == AdditionalProperties(Top.node)
        strct ==
            IF ap.kind = "bool"
            THEN IF ap.b
                 THEN [strct0 EXCEPT
                          !.Fields = Put(@, "AdditionalProperties",
                                         Field("AdditionalProperties", "-",
                                               "map[string]interface{}", FALSE, "")),
                          !.GenerateCode = TRUE,
                          !.AdditionalType = "interface{}"]
                 ELSE [strct0 EXCEPT !.GenerateCode = TRUE, !.AdditionalType = "false"]
            ELSE strct0
        typ == getPrimitiveTypeName("object", Top.name, TRUE)
    IN  /\ Structs' = Put(Structs, strct.Name, strct)
        /\ Return(typ.name, typ.err)

\* after the properties: a typed additionalProperties schema is resolved
processObjectAdditional ==
    /\ At("processObject", "props")
    /\ Top.keys = {}
    /\ LET ap == AdditionalProperties(Top.node)
           sn == getSchemaName("", ap.node, anonCount)
       IN  IF ap.kind = "schema"
           THEN /\ anonCount' = sn.anon
                /\ Call([Top EXCEPT !.pc = "apwait"], NewFrame("processSchema", sn.name, ap.node))
                /\ UNCHANGED Structs
           ELSE /\ FinishObject(Top.strct)
                /\ UNCHANGED anonCount
    /\ UNCHANGED <<doc, TypeValue, GeneratedType, Aliases,
                   status, err, bodyRuns, refTypes, first, renderVars, nameVars>>

\* the object collapses to a map, or gets the AdditionalProperties field
processObjectAdditionalReturn ==
    /\ At("processObject", "apwait")
    /\ LET subTyp == ret.typ
           mapTyp == "map[string]" \o subTyp
           strct == [Top.strct EXCEPT
                        !.Fields = Put(@, "AdditionalProperties",
                                       Field("AdditionalProperties", "-", mapTyp, FALSE, "")),
                        !.GenerateCode = TRUE,
                        !.AdditionalType = subTyp]
       IN  IF ret.err # ""
           THEN /\ Return("", ret.err)
                /\ UNCHANGED Structs
           ELSE IF Cardinality(DOMAIN Properties(Top.node)) = 0 /\ ~isDefinitionObject(Top.node)
           THEN /\ Return(mapTyp, "")
                /\ UNCHANGED Structs
           ELSE FinishObject(strct)
    /\ UNCHANGED <<doc, TypeValue, GeneratedType, Aliases, anonCount,
                   status, err, bodyRuns, refTypes, first, renderVars, nameVars>>

\* the Go runtime ends the program when the goroutine stack exceeds its limit
StackOverflow ==
    /\ status = "running"
    /\ Len(stack) > MaxStack
    /\ status' = "overflow"
    /\ UNCHANGED <<doc, TypeValue, GeneratedType, Structs, Aliases, anonCount, stack,
                   ret, err, bodyRuns, refTypes, failed, first, renderVars, nameVars>>

Resolve ==
    \/ CreateTypes
    \/ CreateTypesReturn
    \/ processSchema
    \/ processSchemaType
    \/ processSchemaBranchReturn
    \/ processSchemaReferenceReturn
    \/ processDefinitions
    \/ processDefinitionsReturn
    \/ processReference
    \/ processReferenceReturn
    \/ processArray
    \/ processArrayReturn
    \/ processObject
    \/ processObjectProperty
    \/ processObjectPropertyReturn
    \/ processObjectAdditional
    \/ processObjectAdditionalReturn
    \/ StackOverflow

\* New on the same document with fresh schema nodes, for a second pass
New ==
    /\ status = "done"
    /\ first = <<>>
    /\ rstatus = "idle"
    /\ first' = << [Structs |-> Structs, Aliases |-> Aliases, err |-> err] >>
    /\ TypeValue' = [n \in Nodes |-> DeclaredType(doc, n)]
    /\ GeneratedType' = [n \in Nodes |-> ""]
    /\ Structs' = <<>>
    /\ Aliases' = <<>>
    /\ anonCount' = 0
    /\ stack' = <<>>
    /\ ret' = NoRet
    /\ status' = "new"
    /\ err' = ""
    /\ bodyRuns' = [n \in Nodes |-> [processObject |-> 0, processArray |-> 0]]
    /\ refTypes' = [n \in Nodes |-> {}]
    /\ failed' = FALSE
    /\ UNCHANGED <<doc, renderVars, nameVars>>

(***************************************************************************)
(* Mapping renderer                                                        *)
(***************************************************************************)
\* byte order of the characters that occur in generated names
ByteOrder == "-0123456789ABCDEFGHIJKLMNOPQRSTUVWXYZ_abcdefghijklmnopqrstuvwxyz"

RECURSIVE StrLess(_, _)
StrLess(a, b) ==
    IF a = "" THEN b # ""
    ELSE IF b = "" THEN FALSE
    ELSE IF Char(a, 1) = Char(b, 1) THEN StrLess(SubSeq(a, 2, Len(a)), SubSeq(b, 2, Len(b)))
    ELSE IndexIn(ByteOrder, Char(a, 1)) < IndexIn(ByteOrder, Char(b, 1))

RECURSIVE Sorted(_)
Sorted(names) ==
    IF names = {} THEN <<>>
    ELSE LET least == CHOOSE x \in names : \A y \in names \ {x} : StrLess(x, y)
         IN  <<least>> \o Sorted(names \ {least})

getOrderedFieldNames(fields) == Sorted(DOMAIN fields)

getOrderedStructNames(structs) == Sorted(DOMAIN structs)

getESType(f) ==
    CASE f.Type \in {"string", "[]string"} ->
            IF f.Format = "date-time" THEN "date" ELSE "keyword"
      [] f.Type = "int" -> "integer"
      [] f.Type = "bool" -> "boolean"
      [] OTHER -> "object"

RenderFrame(fn, s, names) == [fn |-> fn, s |-> s, names |-> names, count |-> 0]

RTop == rstack[Len(rstack)]

RAt(fn) ==
    /\ rstatus = "running"
    /\ Len(rstack) > 0
    /\ Len(rstack) <= MaxRenderDepth
    /\ RTop.fn = fn

\* ESOutput up to its loop over the records; the package clause, which
\* depends on the pkg argument alone, is left out of the lines, and the
\* delimiter of the raw string constant is written ' in them
ESOutput ==
    /\ status = "done"
    /\ err = ""
    /\ rstatus = "idle"
    /\ rstatus' = "running"
    /\ rstack' = << RenderFrame("ESOutput", Struct(""), getOrderedStructNames(Structs)) >>
    /\ out' = <<"// Code generated", "", "const (">>
    /\ UNCHANGED <<doc, genVars, first, nameVars>>

\* one iteration of the loop of ESOutput, up to renderStructMapping; or its end
ESOutputRecord ==
    /\ RAt("ESOutput")
    /\ IF RTop.names = <<>>
       THEN /\ rstatus' = "finished"
            /\ rstack' = <<>>
            /\ out' = Append(out, ")")
       ELSE LET s == Structs[Head(RTop.names)]
            IN  /\ rstatus' = rstatus
                /\ rstack' = Append([rstack EXCEPT ![Len(rstack)].names = Tail(@)],
                                    RenderFrame("renderStructMapping", s,
                                                getOrderedFieldNames(s.Fields)))
                /\ out' = out \o <<"", "// " \o s.Name, "Mapping" \o s.Name \o " = '",
                                  "{", "properties: {">>
    /\ UNCHANGED <<doc, genVars, first, nameVars>>

\* one iteration of the loop over the fields in renderStructMapping
renderStructMapping ==
    /\ RAt("renderStructMapping")
    /\ RTop.names # <<>>
    /\ LET f == RTop.s.Fields[Head(RTop.names)]
           rest == [rstack EXCEPT ![Len(rstack)].names = Tail(@)]
           counted == [rest EXCEPT ![Len(rstack)].count = @ + 1]
           sep == IF RTop.count # 0 THEN <<",">> ELSE <<>>
           key == <<f.JSONName \o ": ">>
           esType == getESType(f)
           name == Trim(f.Type, "[]*")
           s == Structs[name]
           leaf(t) == <<"{", "type: " \o t, "}">>
       IN  IF HasPrefix(f.JSONName, "_") \/ f.JSONName = "-"
           THEN /\ rstack' = rest
                /\ out' = out
           ELSE IF esType # "object"
           THEN /\ rstack' = counted
                /\ out' = out \o sep \o key \o leaf(esType)
           ELSE IF name \notin DOMAIN Structs
           THEN /\ rstack' = counted
                /\ out' = out \o sep \o key
                              \o leaf(IF name = "int64" THEN "integer" ELSE "keyword")
           ELSE IF s.AdditionalType # "" \/ f.Format = "raw"
           THEN /\ rstack' = counted
                /\ out' = out \o sep \o key
                              \o <<"{", "enabled : false,", "type: object", "}">>
           ELSE /\ rstack' = Append(counted,
                                    RenderFrame("renderStructMapping", s,
                                                getOrderedFieldNames(s.Fields)))
                /\ out' = out \o sep \o key \o <<"{", "properties: {">>
    /\ rstatus' = rstatus
    /\ UNCHANGED <<doc, genVars, first, nameVars>>

\* the end of renderStructMapping; back in ESOutput the constant is closed
renderStructMappingReturn ==
    /\ RAt("renderStructMapping")
    /\ RTop.names = <<>>
    /\ rstack' = SubSeq(rstack, 1, Len(rstack) - 1)
    /\ out' = out \o <<"", "}", "}">>
                  \o (IF rstack[Len(rstack) - 1].fn = "ESOutput" THEN <<"'", "">> ELSE <<>>)
    /\ rstatus' = rstatus
    /\ UNCHANGED <<doc, genVars, first, nameVars>>

\* the Go runtime ends the program when the goroutine stack exceeds its limit
renderStackOverflow ==
    /\ rstatus = "running"
    /\ Len(rstack) > MaxRenderDepth
    /\ rstatus' = "overflow"
    /\ UNCHANGED <<doc, genVars, first, rstack, out, nameVars>>

Render ==
    \/ ESOutput
    \/ ESOutputRecord
    \/ renderStructMapping
    \/ renderStructMappingReturn
    \/ renderStackOverflow

(***************************************************************************)
(* Specifications                                                          *)
(***************************************************************************)
\* one resolution pass, then the rendering of its type model
Next == Resolve \/ Render

Spec == Init /\ [][Next]_vars

\* two resolution passes over the same document
NextTwice == Resolve \/ New

SpecTwice == Init /\ [][NextTwice]_vars

\* getGolangName on every raw key of at most MaxLen characters
Alphabet == {"i", "d", "7", "-"}

RECURSIVE Keys(_)
Keys(len) ==
    IF len = 0 THEN {""}
    ELSE LET shorter == Keys(len - 1)
         IN  shorter \cup {k \o c : k \in shorter, c \in Alphabet}

InitNames ==
    /\ doc = CHOOSE d \in Docs : TRUE
    /\ Fresh(doc)
    /\ first = <<>>
    /\ rstack = <<>>
    /\ rstatus = "idle"
    /\ out = <<>>
    /\ raw \in Keys(MaxLen)
    /\ frags = <<>>
    /\ goName = ""

GetGolangName ==
    /\ status = "new"
    /\ status' = "named"
    /\ frags' = splitOnAll(raw)
    /\ goName' = getGolangName(raw)
    /\ UNCHANGED <<doc, TypeValue, GeneratedType, Structs, Aliases, anonCount, stack, ret,
                   err, bodyRuns, refTypes, failed, first, renderVars, raw>>

NextNames == GetGolangName

SpecNames == InitNames /\ [][NextNames]_vars

(***************************************************************************)
(* Properties                                                              *)
(***************************************************************************)
Finished == status = "done" /\ err = ""

\* the nodes whose $ref resolves to n
RefSites(n) ==
    {m \in Nodes : Exists(m) /\ Reference(m) # "" /\ GetSchemaByReference(m) = n}

\* C1: at the end of a successful pass, for a node that two or more $ref
\* pointers target, the body of processObject/processArray has run at most
\* once and every processReference on it returned the same type string.
C1_ResolvedOnce ==
    Finished =>
        \A n \in Nodes :
            Cardinality(RefSites(n)) >= 2 =>
                /\ bodyRuns[n].processObject <= 1
                /\ bodyRuns[n].processArray <= 1
                /\ Cardinality(refTypes[n]) <= 1

PropertiesOf(n) == {Properties(n)[k] : k \in DOMAIN Properties(n)}

IsObject(n) ==
    /\ n # NoNode
    /\ Exists(n)
    /\ FixMissingTypeValue(DeclaredType(doc, n), n) = <<"object">>

RefersTo(p, n) == Reference(p) # "" /\ GetSchemaByReference(p) = n

\* the schema a property stands for: itself, or the target of its $ref
Resolved(p) == IF Reference(p) # "" THEN GetSchemaByReference(p) ELSE p

\* a property of n refers back to n, directly or through one object
SelfReferential(n) ==
    /\ IsObject(n)
    /\ \E p \in PropertiesOf(n) :
        \/ RefersTo(p, n)
        \/ /\ Resolved(p) # n
           /\ IsObject(Resolved(p))
           /\ \E q \in PropertiesOf(Resolved(p)) : RefersTo(q, n)

\* every $ref of the document is a property of an object and resolves to an object
AllRefsAmongObjects ==
    \A m \in Nodes :
        Exists(m) /\ Reference(m) # "" =>
            /\ IsObject(Parent(m))
            /\ m \in PropertiesOf(Parent(m))
            /\ IsObject(GetSchemaByReference(m))

RecordName(n) == SubSeq(GeneratedType[n], 2, Len(GeneratedType[n]))

HasPointerField(target) ==
    \E k \in DOMAIN Structs :
        \E f \in DOMAIN Structs[k].Fields :
            Structs[k].Fields[f].Type = "*" \o target

\* C2: in a document whose references are all properties of objects and lead
\* to objects, and that holds an object with a property referring back to it
\* (directly or through one intermediate object), the pass does not recurse
\* without end, and after a successful pass some record has a field of the
\* pointer type of that object's record.
C2_CycleSafe ==
    (AllRefsAmongObjects /\ \E n \in Nodes : SelfReferential(n)) =>
        /\ status # "overflow"
        /\ Finished =>
            \A n \in Nodes : SelfReferential(n) => HasPointerField(RecordName(n))

\* C3: two successful passes over the same document, each on a fresh
\* generator and fresh schema nodes, leave the same Structs and Aliases.
C3_Deterministic ==
    (Finished /\ first # <<>> /\ first[1].err = "") =>
        Structs = first[1].Structs /\ Aliases = first[1].Aliases

\* C4: when some call of the pass has returned an error, CreateTypes
\* returns an error.
C4_FailurePropagates ==
    (status = "done" /\ failed) => err # ""

\* processObject is about to decide on an object without declared
\* properties whose additionalProperties schema resolved to ret.typ
CollapseCase ==
    /\ status = "running"
    /\ Len(stack) > 0
    /\ Top.fn = "processObject"
    /\ Top.pc = "apwait"
    /\ ret.err = ""
    /\ DOMAIN Properties(Top.node) = {}

UnderDefinitions(n) == HasPrefix(PathElement(n), "definitions")

\* C5 as claimed: such an object outside a definitions block resolves to
\* "map[string]T" and adds no record; inside a definitions block its record
\* is registered and the pointer to it returned.
C5_Original ==
    [][CollapseCase =>
        IF ~UnderDefinitions(Top.node)
        THEN /\ ret' = [typ |-> "map[string]" \o ret.typ, err |-> ""]
             /\ Structs' = Structs
        ELSE /\ Top.name \in DOMAIN Structs'
             /\ ret' = [typ |-> "*" \o Top.name, err |-> ""]]_vars

\* C5 as amended: inside a definitions block the record is registered under
\* the name of the node, and the pointer to it is returned when that name is
\* not empty; with an empty name processObject returns an error.
C5_Collapse ==
    [][CollapseCase =>
        IF ~UnderDefinitions(Top.node)
        THEN /\ ret' = [typ |-> "map[string]" \o ret.typ, err |-> ""]
             /\ Structs' = Structs
        ELSE /\ Top.name \in DOMAIN Structs'
             /\ Structs'[Top.name].AdditionalType = ret.typ
             /\ IF Top.name # ""
                THEN ret' = [typ |-> "*" \o Top.name, err |-> ""]
                ELSE ret'.err # ""]_vars

C5_Witness ==
    /\ Finished
    /\ doc.root = "object" /\ doc.a = "map" /\ doc.ac = "integer"
    /\ doc.x = "map" /\ doc.xc = "integer"
    /\ Structs["Root"].Fields["A"].Type = "map[string]int"
    /\ "A" \notin DOMAIN Structs
    /\ "X" \in DOMAIN Structs
    /\ GeneratedType[NodeX] = "*X"

Tags(n) == {DeclaredType(doc, n)[i] : i \in 1..Len(DeclaredType(doc, n))}

UnionNode(n) == Len(DeclaredType(doc, n)) > 1

\* this step returns from the innermost activation, which is one of fn
ReturnsFrom(fn) ==
    /\ status = "running"
    /\ Len(stack) > 0
    /\ Top.fn = fn
    /\ Len(stack') = Len(stack) - 1

Registered(name) == name \in DOMAIN Structs \cup DOMAIN Aliases

\* C6 as claimed: processSchema on a node with two or more tags returns
\* "interface{}" after entering the branch of every tag, and for every tag t
\* a record or alias named <name>_<t> is registered by then.
C6_Original ==
    [][(ReturnsFrom("processSchema") /\ UnionNode(Top.node) /\ ret'.err = "") =>
        /\ ret'.typ = "interface{}"
        /\ Top.visited = Tags(Top.node)
        /\ \A t \in Tags(Top.node) : Registered(Top.name \o "_" \o t)]_vars

\* the object branch on n ends in the map type instead of a record
Collapses(n) ==
    /\ DOMAIN Properties(n) = {}
    /\ AdditionalProperties(n).kind = "schema"
    /\ ~UnderDefinitions(n)

\* processSchema is about to take the branch of a primitive tag
PrimitiveBranch ==
    /\ status = "running"
    /\ Len(stack) > 0
    /\ Top.fn = "processSchema"
    /\ Top.pc = "types"
    /\ Top.idx <= Len(TypeValue[Top.node])
    /\ TypeValue[Top.node][Top.idx] \notin {"object", "array"}

\* C6 as amended: processSchema on a node with two or more tags returns
\* "interface{}" after entering the branch of every tag; an object tag whose
\* branch does not collapse to a map has registered the record <name>_object;
\* the branch of a primitive tag registers nothing.
C6_Union ==
    [][/\ (ReturnsFrom("processSchema") /\ UnionNode(Top.node) /\ ret'.err = "") =>
            /\ ret'.typ = "interface{}"
            /\ Top.visited = Tags(Top.node)
            /\ ("object" \in Tags(Top.node) /\ ~Collapses(Top.node)) =>
                    (Top.name \o "_object") \in DOMAIN Structs
       /\ PrimitiveBranch => Structs' = Structs /\ Aliases' = Aliases]_vars

C6_Witness ==
    /\ Finished
    /\ doc.root = "object" /\ doc.a = "unionobj"
    /\ Structs["Root"].Fields["A"].Type = "interface{}"
    /\ "A_object" \in DOMAIN Structs
    /\ ~Registered("A_array")

\* C7: a GeneratedType that has been set is not changed by any later step of
\* the pass.
C7_MemoStable ==
    [][\A n \in Nodes : GeneratedType[n] # "" => GeneratedType'[n] = GeneratedType[n]]_vars

\* C8: rendering the type model of a successful pass never recurses beyond
\* the stack, so that renderStructMapping returns on every record.
C8_RenderTerminates == rstatus # "overflow"

\* C9: splitOnAll yields no empty fragment, a first fragment that begins
\* with a digit makes the name begin with "_", and the name returned by
\* getGolangName does not begin with a digit.
C9_Sanitized ==
    status = "named" =>
        /\ \A i \in 1..Len(frags) : frags[i] # ""
        /\ (frags # <<>> /\ StartsWithDigit(frags[1])) => HasPrefix(goName, "_")
        /\ ~StartsWithDigit(goName)

IsPointer(t) == HasPrefix(t, "*")

PointerTarget(t) == SubSeq(t, 2, Len(t))

\* C10: after a successful pass, every GeneratedType "*N" and every field of
\* a record of type "*N" has a record N in Structs.
C10_NoDangling ==
    Finished =>
        /\ \A n \in Nodes :
            IsPointer(GeneratedType[n]) => PointerTarget(GeneratedType[n]) \in DOMAIN Structs
        /\ \A k \in DOMAIN Structs :
            \A f \in DOMAIN Structs[k].Fields :
                IsPointer(Structs[k].Fields[f].Type) =>
                    PointerTarget(Structs[k].Fields[f].Type) \in DOMAIN Structs

=============================================================================
